---- MODULE Spec2Model ----
(***************************************************************************)
(* memuse: DynamicUsage estimates of heap usage.                           *)
(*                                                                         *)
(* Part 1 models src/src/btree.rs: the node-count engine                   *)
(* btree_dynamic_usage_bounds / btree_dynamic_usage and the BTreeMap and   *)
(* BTreeSet impls on top of it, run against a tree whose shape obeys the   *)
(* B-tree invariants quoted in that file.                                  *)
(* Part 2 models the impl_iterable_dynamic_usage! impls of src/src/lib.rs. *)
(*                                                                         *)
(* Integer arithmetic keeps Rust's semantics: a debug build panics on      *)
(* overflow, a release build wraps.  usize is the pointer width of the     *)
(* target; the model takes a 16-bit target so that wrapped values stay     *)
(* representable.  u32 values are kept as two 16-bit limbs <<hi, lo>>.      *)
(***************************************************************************)
EXTENDS Integers, Sequences, FiniteSets, TLC

\* ------------------------------------------------------------------------
\* Bounds of the model
\* ------------------------------------------------------------------------

\* Largest entry count a tree is grown to.
MaxEntries == 145

\* Longest sequence container and largest reserved capacity.
MaxLen == 2
MaxCap == 7

\* ------------------------------------------------------------------------
\* Program constants
\* ------------------------------------------------------------------------

B == 6

CAPACITY == 2 * B - 1

UsizeBits == 16

UsizeMod == 2 ^ UsizeBits

HalfMod == 2 ^ (UsizeBits \div 2)

LimbMod == 2 ^ 16

PtrBytes == UsizeBits \div 8

Builds == {"debug", "release"}

\* ------------------------------------------------------------------------
\* State
\* ------------------------------------------------------------------------

VARIABLES
    build,        \* "debug" (overflow checks on) or "release" (wrapping)
    ttype,        \* the tree container's type, an element of TreeTypes
    entries,      \* len() of the tree container
    shape,        \* <<internal, leaf>> nodes the tree holds
    usage_ret,    \* outcome of the last dynamic_usage call on the tree
    bounds_ret,   \* outcome of the last dynamic_usage_bounds call on it
    ctype,        \* the sequence container's type
    capacity,     \* its capacity()
    items,        \* its elements, each by its own estimate
    seq_ret       \* outcome of the last call on the sequence container

vars == <<build, ttype, entries, shape, usage_ret, bounds_ret,
          ctype, capacity, items, seq_ret>>

tree_vars == <<ttype, entries, shape, usage_ret, bounds_ret>>

seq_vars == <<ctype, capacity, items, seq_ret>>

NotCalled == [op |-> "none"]

\* ------------------------------------------------------------------------
\* Option<usize>
\* ------------------------------------------------------------------------

None == [some |-> FALSE, val |-> 0]

Some(x) == [some |-> TRUE, val |-> x]

\* ------------------------------------------------------------------------
\* Machine arithmetic.  An operation that overflows panics in a debug build
\* and wraps in a release build.  A panic is the value Panic; an operation
\* on a value that is already a panic is never reached and yields Panic.
\* ------------------------------------------------------------------------

Panic == 0 - 1

usize_wrap(bld, x) ==
    IF (x < 0 \/ x >= UsizeMod) /\ bld = "debug" THEN Panic ELSE x % UsizeMod

usize_add(bld, a, b) ==
    IF a = Panic \/ b = Panic THEN Panic ELSE usize_wrap(bld, a + b)

usize_sub(bld, a, b) ==
    IF a = Panic \/ b = Panic THEN Panic ELSE usize_wrap(bld, a - b)

\* The product is taken in two halves of a so that no intermediate
\* exceeds 2^24.
usize_mul(bld, a, b) ==
    IF a = Panic \/ b = Panic THEN Panic
    ELSE IF (a \div HalfMod) * b >= HalfMod /\ bld = "debug" THEN Panic
    ELSE usize_wrap(bld, (((a \div HalfMod) * b) % HalfMod) * HalfMod
                             + (a % HalfMod) * b)

usize_div(a, b) == IF a = Panic THEN Panic ELSE a \div b

U32(x) == <<x \div LimbMod, x % LimbMod>>

U32Panic == <<Panic, Panic>>

\* a - b on u32, b < 2^16
u32_sub(bld, a, b) ==
    IF a = U32Panic THEN U32Panic
    ELSE IF a[2] >= b THEN <<a[1], a[2] - b>>
    ELSE IF a[1] > 0 THEN <<a[1] - 1, a[2] - b + LimbMod>>
    ELSE IF bld = "debug" THEN U32Panic
    ELSE <<LimbMod - 1, a[2] - b + LimbMod>>

\* usize::pow(self, exp: u32), for the even bases this file raises
\* (m = 2 * B and d = B).  An exponent below the width of usize is
\* multiplied out.  For a larger one 2^exp divides base^exp, so the product
\* has overflowed and its wrapped value is 0.
RECURSIVE pow_small(_, _, _)
pow_small(bld, base, e) ==
    IF e = 0 THEN 1 ELSE usize_mul(bld, pow_small(bld, base, e - 1), base)

usize_pow(bld, base, exp) ==
    IF exp = U32Panic THEN Panic
    ELSE IF exp[1] = 0 /\ exp[2] < UsizeBits THEN pow_small(bld, base, exp[2])
    ELSE IF bld = "debug" THEN Panic
    ELSE 0

\* ------------------------------------------------------------------------
\* f64 arithmetic of the height formulas.  For integer x >= 1 the value of
\* (x as f64).log(base).ceil() is the least k with base^k >= x, and that
\* of ((x as f64) / 2.0).log(base).floor() is the greatest k with
\* 2 * base^k <= x, which is -1 when x = 1 (log of 0.5).
\* ------------------------------------------------------------------------

RECURSIVE ceil_log_from(_, _, _, _)
ceil_log_from(x, base, k, p) ==
    IF p >= x THEN k ELSE ceil_log_from(x, base, k + 1, p * base)

f64_log_ceil(x, base) == ceil_log_from(x, base, 0, 1)

RECURSIVE floor_log_from(_, _, _, _)
floor_log_from(x, base, k, p) ==
    IF 2 * p * base > x THEN k ELSE floor_log_from(x, base, k + 1, p * base)

f64_half_log_floor(x, base) ==
    IF x < 2 THEN -1 ELSE floor_log_from(x, base, 0, 1)

\* `as u32` on an f64: saturating, negative values become 0.
f64_as_u32(f) == IF f < 0 THEN U32(0) ELSE U32(f)

\* ------------------------------------------------------------------------
\* Node layouts: mem::size_of of LeafNode<K, V> and InternalNode<K, V>.
\* A type is given by its layout [size, align].
\* ------------------------------------------------------------------------

Max2(a, b) == IF a >= b THEN a ELSE b

round_up(n, a) == ((n + a - 1) \div a) * a

\* parent: Option<NonNull<_>>, parent_idx: u16, len: u16,
\* keys: [K; CAPACITY], vals: [V; CAPACITY]
size_of_LeafNode(K, V) ==
    round_up(PtrBytes + 2 + 2 + CAPACITY * K.size + CAPACITY * V.size,
             Max2(Max2(PtrBytes, 2), Max2(K.align, V.align)))

\* data: LeafNode<K, V>, edges: [BoxedNode<K, V>; 2 * B]
size_of_InternalNode(K, V) ==
    round_up(size_of_LeafNode(K, V) + 2 * B * PtrBytes,
             Max2(Max2(PtrBytes, 2), Max2(K.align, V.align)))

\* ------------------------------------------------------------------------
\* fn btree_dynamic_usage_bounds<K, V>(entries: usize) -> (usize, usize)
\* Node counts are pairs <<inner, leaf>>.
\* ------------------------------------------------------------------------

\* let h_min = ((entries + 1) as f64).log(m as f64).ceil() as u32 - 1;
h_min_of(bld, n_entries) ==
    u32_sub(bld, f64_as_u32(f64_log_ceil(n_entries + 1, 2 * B)), 1)

\* let h_max = (((entries + 1) as f64) / 2f64).log(d as f64).floor() as u32;
h_max_of(n_entries) == f64_as_u32(f64_half_log_floor(n_entries + 1, B))

\* ((m.pow(h_min - 1) - 1) / (m - 1), m.pow(h_min - 1)), pow = m.pow(h_min - 1)
max_filled(bld, pow) ==
    <<usize_div(usize_sub(bld, pow, 1), 2 * B - 1), pow>>

\* match h_min { 0 => (0, 1), _ => ... }
lower_counts(bld, h_min) ==
    IF h_min = U32Panic THEN <<Panic, Panic>>
    ELSE IF h_min = U32(0) THEN <<0, 1>>
    ELSE max_filled(bld, usize_pow(bld, 2 * B, u32_sub(bld, h_min, 1)))

\* (1 + 2 * (d.pow(h_max - 2) - 1) / (d - 1), 2 * d.pow(h_max - 2)),
\* pow = d.pow(h_max - 2)
min_filled(bld, pow) ==
    <<usize_add(bld, 1,
          usize_div(usize_mul(bld, 2, usize_sub(bld, pow, 1)), B - 1)),
      usize_mul(bld, 2, pow)>>

\* match h_max { 0 => (0, 1), 1 => (1, 2), _ => ... }
upper_counts(bld, h_max) ==
    IF h_max = U32(0) THEN <<0, 1>>
    ELSE IF h_max = U32(1) THEN <<1, 2>>
    ELSE min_filled(bld, usize_pow(bld, B, u32_sub(bld, h_max, 2)))

\* inner * inner_size + leaf * leaf_size
count_bytes(bld, counts, inner_size, leaf_size) ==
    usize_add(bld, usize_mul(bld, counts[1], inner_size),
                   usize_mul(bld, counts[2], leaf_size))

\* What the call hands back: the pair, with the heights and node counts
\* it was computed from, or a panic.
bounds_outcome(h_min, h_max, lo, up, lower, upper) ==
    IF lower = Panic \/ upper = Panic
    THEN [status |-> "panic"]
    ELSE [status |-> "ok", lower |-> lower, upper |-> upper,
          h_min |-> h_min, h_max |-> h_max,
          lower_inner |-> lo[1], lower_leaf |-> lo[2],
          upper_inner |-> up[1], upper_leaf |-> up[2]]

bounds_of_counts(bld, h_min, h_max, lo, up, inner_size, leaf_size) ==
    bounds_outcome(h_min, h_max, lo, up,
                   count_bytes(bld, lo, inner_size, leaf_size),
                   count_bytes(bld, up, inner_size, leaf_size))

bounds_of_heights(bld, h_min, h_max, inner_size, leaf_size) ==
    bounds_of_counts(bld, h_min, h_max,
                     lower_counts(bld, h_min), upper_counts(bld, h_max),
                     inner_size, leaf_size)

btree_dynamic_usage_bounds(K, V, n_entries, bld) ==
    bounds_of_heights(bld, h_min_of(bld, n_entries), h_max_of(n_entries),
                      size_of_InternalNode(K, V), size_of_LeafNode(K, V))

\* ------------------------------------------------------------------------
\* fn btree_dynamic_usage<K, V>(entries: usize) -> usize
\* ------------------------------------------------------------------------

usage_outcome(val) ==
    IF val = Panic THEN [status |-> "panic"]
    ELSE [status |-> "ok", val |-> val]

\* lower + ((upper - lower) / 2)
midpoint(bld, lower, upper) ==
    usize_add(bld, lower, usize_div(usize_sub(bld, upper, lower), 2))

btree_midpoint(bld, b) ==
    IF b.status = "panic" THEN Panic ELSE midpoint(bld, b.lower, b.upper)

btree_dynamic_usage(K, V, n_entries, bld) ==
    usage_outcome(
        btree_midpoint(bld, btree_dynamic_usage_bounds(K, V, n_entries, bld)))

\* ------------------------------------------------------------------------
\* Element estimates.  An element's own DynamicUsage result is the record
\* [usage, lower, upper]: what its dynamic_usage returns and the pair its
\* dynamic_usage_bounds returns.
\* ------------------------------------------------------------------------

\* impl<T: NoDynamicUsage> DynamicUsage for T
NoDynamicUsage == [usage |-> 0, lower |-> 0, upper |-> Some(0)]

\* impl DynamicUsage for String, with the given capacity
StringUsage(cap) ==
    [usage |-> cap, lower |-> cap, upper |-> Some(cap)]

\* An element type whose upper bound is not known.
UnboundedUsage == [usage |-> 4, lower |-> 2, upper |-> None]

\* ------------------------------------------------------------------------
\* impl DynamicUsage for BTreeMap<K, V> and for BTreeSet<T>.
\* t = [kind, K, V, kest, vest]: the container, the layouts of its key and
\* value types and the estimate every stored key / value reports.  A set
\* is a map with V = (), and only its keys are summed.
\* ------------------------------------------------------------------------

\* Every stored key reports t.kest and every stored value t.vest, so a sum
\* over the len entries adds the same term len times: it is len * term,
\* and some addition overflows exactly when that product does.
sum_of_equal(bld, len, term) == usize_mul(bld, len, term)

\* .map(|(k, v)| k.dynamic_usage() + v.dynamic_usage()).sum::<usize>()
\* (BTreeSet: .map(DynamicUsage::dynamic_usage).sum::<usize>())
tree_iter_sum(t, len, bld) ==
    sum_of_equal(bld, len, IF t.kind = "BTreeMap"
                           THEN usize_add(bld, t.kest.usage, t.vest.usage)
                           ELSE t.kest.usage)

tree_dynamic_usage(t, len, bld) ==
    usage_outcome(
        usize_add(bld,
            btree_midpoint(bld, btree_dynamic_usage_bounds(t.K, t.V, len, bld)),
            tree_iter_sum(t, len, bld)))

\* .fold(.., |acc, (k, v)| (acc.0 + k.0 + v.0, ..)).0
\* (BTreeSet: acc.0 + k.0)
tree_fold_lower(t, len, bld, lower) ==
    usize_add(bld, lower,
        sum_of_equal(bld, len, IF t.kind = "BTreeMap"
                               THEN usize_add(bld, t.kest.lower, t.vest.lower)
                               ELSE t.kest.lower))

\* .fold(.., |acc, (k, v)|
\*     (.., acc.1.zip(k.1).zip(v.1).map(|((a, b), c)| a + b + c))).1
\* (BTreeSet: acc.1.zip(k.1).map(|(a, b)| a + b))
tree_fold_upper(t, len, bld, upper) ==
    IF len = 0 THEN Some(upper)
    ELSE IF t.kind = "BTreeMap" /\ t.kest.upper.some /\ t.vest.upper.some
    THEN Some(usize_add(bld, upper,
             sum_of_equal(bld, len,
                 usize_add(bld, t.kest.upper.val, t.vest.upper.val))))
    ELSE IF t.kind = "BTreeSet" /\ t.kest.upper.some
    THEN Some(usize_add(bld, upper, sum_of_equal(bld, len, t.kest.upper.val)))
    ELSE None

tree_bounds_outcome(e, lower, upper) ==
    IF lower = Panic \/ upper.val = Panic
    THEN [status |-> "panic", engine |-> e]
    ELSE [status |-> "ok", engine |-> e, lower |-> lower, upper |-> upper]

tree_fold(t, len, bld, e) ==
    IF e.status = "panic" THEN [status |-> "panic", engine |-> e]
    ELSE tree_bounds_outcome(e, tree_fold_lower(t, len, bld, e.lower),
                                tree_fold_upper(t, len, bld, e.upper))

tree_dynamic_usage_bounds(t, len, bld) ==
    tree_fold(t, len, bld, btree_dynamic_usage_bounds(t.K, t.V, len, bld))

\* ------------------------------------------------------------------------
\* The tree the container holds.  BTreeMap keeps (src/src/btree.rs, the
\* invariants listed in btree_dynamic_usage_bounds): every non-root node
\* has between B - 1 and CAPACITY entries, all leaves are at one depth, and
\* an internal node of k entries has k + 1 edges.  Hence a level of c
\* internal nodes with c2 children in total holds c2 - c entries, and a
\* tree with c leaves on its last level and n entries keeps
\* n - (c - 1) entries in those leaves.  A shape is <<internal, leaf>>.
\* ------------------------------------------------------------------------

Min2(a, b) == IF a <= b THEN a ELSE b

\* Shapes below a non-root level of c nodes, acc internal nodes above it.
RECURSIVE ShapesBelow(_, _, _)
ShapesBelow(c, acc, n) ==
    (IF B * c - 1 <= n /\ n <= 2 * B * c - 1 THEN {<<acc, c>>} ELSE {})
    \cup UNION { ShapesBelow(c2, acc + c, n) :
                    c2 \in (B * c) .. Min2(2 * B * c, (n + 1) \div B) }

TreeShapes(n) ==
    IF n = 0 THEN {<<0, 0>>, <<0, 1>>}
    ELSE (IF n <= CAPACITY THEN {<<0, 1>>} ELSE {})
         \cup UNION { ShapesBelow(c, 1, n) :
                         c \in 2 .. Min2(2 * B, (n + 1) \div B) }

\* Bytes the nodes of a shape occupy.
NodeBytes(t, s) ==
    s[1] * size_of_InternalNode(t.K, t.V) + s[2] * size_of_LeafNode(t.K, t.V)

\* ------------------------------------------------------------------------
\* Types the containers are instantiated at.
\* ------------------------------------------------------------------------

Unit == [size |-> 0, align |-> 1]

U8 == [size |-> 1, align |-> 1]

U16 == [size |-> 2, align |-> 2]

U64 == [size |-> 8, align |-> 8]

\* String: pointer, capacity, length
StringLayout == [size |-> 3 * PtrBytes, align |-> PtrBytes]

TreeTypes ==
    { [kind |-> "BTreeMap", K |-> U16, V |-> U16,
       kest |-> NoDynamicUsage, vest |-> NoDynamicUsage],
      [kind |-> "BTreeSet", K |-> U64, V |-> Unit,
       kest |-> NoDynamicUsage, vest |-> NoDynamicUsage],
      [kind |-> "BTreeMap", K |-> StringLayout, V |-> U8,
       kest |-> StringUsage(6), vest |-> NoDynamicUsage],
      [kind |-> "BTreeSet", K |-> U16, V |-> Unit,
       kest |-> UnboundedUsage, vest |-> NoDynamicUsage] }

\* ------------------------------------------------------------------------
\* Part 1: the tree containers
\* ------------------------------------------------------------------------

\* BTreeMap::new() / BTreeSet::new(): no entries, nothing allocated.
TreeInit ==
    /\ build \in Builds
    /\ ttype \in TreeTypes
    /\ entries = 0
    /\ shape = <<0, 0>>
    /\ usage_ret = NotCalled
    /\ bounds_ret = NotCalled

\* insert of a new key: one more entry, in any shape the invariants allow.
\* The outcome of an earlier dynamic_usage_bounds call stays in the
\* caller's hands.
Insert ==
    /\ entries < MaxEntries
    /\ entries' = entries + 1
    /\ shape' \in TreeShapes(entries + 1)
    /\ usage_ret' = NotCalled
    /\ bounds_ret' = IF bounds_ret.op = "called" /\ bounds_ret.entries = entries
                     THEN bounds_ret ELSE NotCalled
    /\ UNCHANGED <<build, ttype, seq_vars>>

\* remove of a present key.
Remove ==
    /\ entries > 0
    /\ entries' = entries - 1
    /\ shape' \in TreeShapes(entries - 1) \ {<<0, 0>>}
    /\ usage_ret' = NotCalled
    /\ bounds_ret' = NotCalled
    /\ UNCHANGED <<build, ttype, seq_vars>>

\* tree.dynamic_usage()
DynamicUsage ==
    /\ usage_ret' = [op |-> "called", entries |-> entries,
                     ret |-> tree_dynamic_usage(ttype, entries, build)]
    /\ bounds_ret' = IF bounds_ret.op = "called" /\ bounds_ret.entries = entries
                     THEN bounds_ret ELSE NotCalled
    /\ UNCHANGED <<build, ttype, entries, shape, seq_vars>>

\* tree.dynamic_usage_bounds()
DynamicUsageBounds ==
    /\ bounds_ret' = [op |-> "called", entries |-> entries,
                      ret |-> tree_dynamic_usage_bounds(ttype, entries, build)]
    /\ UNCHANGED <<build, ttype, entries, shape, usage_ret, seq_vars>>

\* The sequence container of Part 2 is left alone in Part 1.
SeqIdle ==
    /\ ctype = [kind |-> "Vec", T |-> U8, ests |-> {NoDynamicUsage}]
    /\ capacity = 0
    /\ items = <<>>
    /\ seq_ret = NotCalled

Init == TreeInit /\ SeqIdle

Next == Insert \/ Remove \/ DynamicUsage \/ DynamicUsageBounds

Spec == Init /\ [][Next]_vars

\* ------------------------------------------------------------------------
\* Part 2: impl_iterable_dynamic_usage!($type, $base_usage) for
\* &[T], Vec<T>, BinaryHeap<T>, LinkedList<T> and VecDeque<T>.
\* c = [kind, T, ests]: the container, the layout of its element type and
\* the estimates a value of that type can report.
\* ------------------------------------------------------------------------

SeqKinds == {"slice", "Vec", "BinaryHeap", "LinkedList", "VecDeque"}

Reserving == {"Vec", "BinaryHeap", "VecDeque"}

ElemTypes ==
    { [T |-> U64, ests |-> {NoDynamicUsage}],
      [T |-> StringLayout, ests |-> {StringUsage(0), StringUsage(6)}],
      [T |-> U16, ests |-> {NoDynamicUsage, UnboundedUsage}] }

\* Same table with VecDeque's spare slot left out.
base_usage_no_spare(c, cap, len) ==
    CASE c.kind = "slice" -> 0
      [] c.kind = "Vec" -> cap * c.T.size
      [] c.kind = "BinaryHeap" -> cap * c.T.size
      [] c.kind = "LinkedList" -> len * c.T.size
      [] c.kind = "VecDeque" -> cap * c.T.size

\* The $base_usage closure each invocation of the macro passes.
base_usage(c, cap, len) ==
    CASE c.kind = "slice" -> 0
      [] c.kind = "Vec" -> cap * c.T.size
      [] c.kind = "BinaryHeap" -> cap * c.T.size
      [] c.kind = "LinkedList" -> len * c.T.size
      [] c.kind = "VecDeque" -> (cap + 1) * c.T.size

\* self.iter().map(DynamicUsage::dynamic_usage).sum::<usize>()
RECURSIVE iter_sum(_, _, _)
iter_sum(elems, i, acc) ==
    IF i > Len(elems) THEN acc
    ELSE iter_sum(elems, i + 1, acc + elems[i].usage)

seq_dynamic_usage(c, cap, elems) ==
    base_usage(c, cap, Len(elems)) + iter_sum(elems, 1, 0)

\* .fold((0, Some(0)), |(acc_lower, acc_upper), (lower, upper)|
\*     (acc_lower + lower, acc_upper.zip(upper).map(|(a, b)| a + b)))
RECURSIVE iter_fold(_, _, _)
iter_fold(elems, i, acc) ==
    IF i > Len(elems) THEN acc
    ELSE iter_fold(elems, i + 1,
             [lower |-> acc.lower + elems[i].lower,
              upper |-> IF acc.upper.some /\ elems[i].upper.some
                        THEN Some(acc.upper.val + elems[i].upper.val)
                        ELSE None])

seq_dynamic_usage_bounds(c, cap, elems) ==
    LET base == base_usage(c, cap, Len(elems))
        f == iter_fold(elems, 1, [lower |-> 0, upper |-> Some(0)])
    IN  [lower |-> base + f.lower,
         upper |-> IF f.upper.some THEN Some(base + f.upper.val) ELSE None]

\* The tree container of Part 1 is left alone in Part 2.
TreeIdle ==
    /\ build = "release"
    /\ ttype = [kind |-> "BTreeMap", K |-> U16, V |-> U16,
                kest |-> NoDynamicUsage, vest |-> NoDynamicUsage]
    /\ entries = 0
    /\ shape = <<0, 0>>
    /\ usage_ret = NotCalled
    /\ bounds_ret = NotCalled

\* with_capacity(n) for the reserving containers, new() for LinkedList,
\* and for a slice any stretch of elements it may borrow.
SeqInit ==
    /\ \E k \in SeqKinds, e \in ElemTypes :
           ctype = [kind |-> k, T |-> e.T, ests |-> e.ests]
    /\ capacity \in IF ctype.kind \in Reserving THEN 0 .. MaxCap ELSE {0}
    /\ items \in IF ctype.kind = "slice"
                 THEN UNION { [1 .. n -> ctype.ests] : n \in 0 .. MaxLen }
                 ELSE {<<>>}
    /\ seq_ret = NotCalled

\* push / push_back of one element; a full reserving container grows.
Push ==
    /\ ctype.kind # "slice"
    /\ Len(items) < MaxLen
    /\ \E e \in ctype.ests : items' = Append(items, e)
    /\ IF ctype.kind \in Reserving /\ Len(items) >= capacity
       THEN capacity' \in (Len(items) + 1) .. MaxCap
       ELSE capacity' = capacity
    /\ seq_ret' = NotCalled
    /\ UNCHANGED <<build, tree_vars, ctype>>

\* pop / pop_front: capacity is kept.
Pop ==
    /\ ctype.kind # "slice"
    /\ Len(items) > 0
    /\ items' = Tail(items)
    /\ seq_ret' = NotCalled
    /\ UNCHANGED <<build, tree_vars, ctype, capacity>>

\* c.dynamic_usage()
SeqDynamicUsage ==
    /\ seq_ret' = [op |-> "dynamic_usage",
                   val |-> seq_dynamic_usage(ctype, capacity, items)]
    /\ UNCHANGED <<build, tree_vars, ctype, capacity, items>>

\* c.dynamic_usage_bounds()
SeqDynamicUsageBounds ==
    /\ seq_ret' = [op |-> "dynamic_usage_bounds",
                   ret |-> seq_dynamic_usage_bounds(ctype, capacity, items)]
    /\ UNCHANGED <<build, tree_vars, ctype, capacity, items>>

InitSeq == TreeIdle /\ SeqInit

NextSeq == Push \/ Pop \/ SeqDynamicUsage \/ SeqDynamicUsageBounds

SpecSeq == InitSeq /\ [][NextSeq]_vars

\* ------------------------------------------------------------------------
\* Properties of Part 1 (checked under Spec)
\* ------------------------------------------------------------------------

UsageReturned == usage_ret.op = "called" /\ usage_ret.ret.status = "ok"

\* dynamic_usage_bounds was called on the container as it is now.
BoundsCalled == bounds_ret.op = "called" /\ bounds_ret.entries = entries

BoundsReturned == BoundsCalled /\ bounds_ret.ret.status = "ok"

Engine == bounds_ret.ret.engine

RECURSIVE Pow(_, _)
Pow(b, e) == IF e = 0 THEN 1 ELSE b * Pow(b, e - 1)

\* Nodes on level j (root = level 0) of the maximally compact tree: every
\* internal node has 2 * B children.
CompactLevel(j) == Pow(2 * B, j)

\* Nodes on level j of the maximally sparse tree: the root has 2 children,
\* every other internal node B.
SparseLevel(j) == IF j = 0 THEN 1 ELSE 2 * Pow(B, j - 1)

RECURSIVE CompactAbove(_)
CompactAbove(h) ==
    IF h = 0 THEN 0 ELSE CompactLevel(h - 1) + CompactAbove(h - 1)

RECURSIVE SparseAbove(_)
SparseAbove(h) ==
    IF h = 0 THEN 0 ELSE SparseLevel(h - 1) + SparseAbove(h - 1)

\* <<internal, leaf>> of the tree with h levels of internal nodes above
\* its leaves.
CompactTree(h) == <<CompactAbove(h), CompactLevel(h)>>

SparseTree(h) == <<SparseAbove(h), SparseLevel(h)>>

\* C1: the value dynamic_usage returns for a BTreeMap / BTreeSet lies
\* within the pair dynamic_usage_bounds returns for the same value:
\* lower <= usage, and usage <= upper when upper is Some.
C1_UsageWithinBounds ==
    (UsageReturned /\ BoundsReturned) =>
        /\ bounds_ret.ret.lower <= usage_ret.ret.val
        /\ bounds_ret.ret.upper.some =>
               usage_ret.ret.val <= bounds_ret.ret.upper.val

\* C2: the bytes of the nodes of any tree shape the invariants allow for n
\* entries do not exceed the upper bound btree_dynamic_usage_bounds
\* returns for n.
C2_UpperBoundSound ==
    (BoundsCalled /\ Engine.status = "ok") =>
        NodeBytes(ttype, shape) <= Engine.upper

\* C3: the lower bound btree_dynamic_usage_bounds returns for n never
\* exceeds the bytes of the nodes of any tree shape the invariants allow
\* for n entries.
C3_LowerBoundSound ==
    (BoundsCalled /\ Engine.status = "ok") =>
        Engine.lower <= NodeBytes(ttype, shape)

\* C4: on an empty BTreeMap / BTreeSet dynamic_usage returns 0 and
\* dynamic_usage_bounds returns (0, Some(0)), from 0 internal and 0 leaf
\* nodes.
C4_EmptyTreeIsZero ==
    /\ (usage_ret.op = "called" /\ entries = 0) =>
           /\ usage_ret.ret.status = "ok"
           /\ usage_ret.ret.val = 0
    /\ (BoundsCalled /\ entries = 0) =>
           /\ bounds_ret.ret.status = "ok"
           /\ bounds_ret.ret.lower = 0
           /\ bounds_ret.ret.upper = Some(0)
           /\ <<Engine.lower_inner, Engine.lower_leaf>> = <<0, 0>>
           /\ <<Engine.upper_inner, Engine.upper_leaf>> = <<0, 0>>

\* C5: the engine is total: for every entry count each call returns a
\* value, no unsigned subtraction in it goes below zero and no power or
\* product overflows (the same call with overflow checks on returns too).
C5_EngineTotal ==
    /\ usage_ret.op = "called" =>
           /\ usage_ret.ret.status = "ok"
           /\ tree_dynamic_usage(ttype, usage_ret.entries, "debug").status = "ok"
    /\ bounds_ret.op = "called" =>
           /\ bounds_ret.ret.status = "ok"
           /\ tree_dynamic_usage_bounds(ttype, bounds_ret.entries, "debug").status
                  = "ok"

\* C6: along single-entry insertions from the empty container the lower
\* bound of dynamic_usage_bounds never decreases: the pair returned with
\* n + 1 entries has a lower bound at least that returned with n entries.
C6_LowerBoundMonotone ==
    [][(/\ bounds_ret.op = "called"
        /\ bounds_ret'.op = "called"
        /\ bounds_ret'.entries = bounds_ret.entries + 1
        /\ bounds_ret.ret.status = "ok"
        /\ bounds_ret'.ret.status = "ok")
       => bounds_ret'.ret.lower >= bounds_ret.ret.lower]_vars

\* C8: for n >= 1 the node counts behind the upper bound are those of the
\* maximally sparse tree with h_max = floor(log_d((n + 1) / 2)) levels of
\* internal nodes above the leaves.
C8_UpperCountsAreSparseTree ==
    (BoundsCalled /\ Engine.status = "ok" /\ entries >= 1) =>
        <<Engine.upper_inner, Engine.upper_leaf>> = SparseTree(Engine.h_max[2])

\* C9: for n >= 1 the node counts behind the lower bound are those of the
\* maximally compact tree with h_min = ceil(log_m(n + 1)) - 1 levels of
\* internal nodes above the leaves.
C9_LowerCountsAreCompactTree ==
    (BoundsCalled /\ Engine.status = "ok" /\ entries >= 1) =>
        <<Engine.lower_inner, Engine.lower_leaf>> = CompactTree(Engine.h_min[2])

\* C10: the pair btree_dynamic_usage_bounds returns is a well-formed
\* range, lower <= upper, and so is the pair of dynamic_usage_bounds when
\* its upper bound is Some.
C10_BoundsWellFormed ==
    /\ (BoundsCalled /\ Engine.status = "ok") => Engine.lower <= Engine.upper
    /\ (BoundsReturned /\ bounds_ret.ret.upper.some) =>
           bounds_ret.ret.lower <= bounds_ret.ret.upper.val

\* ------------------------------------------------------------------------
\* Properties of Part 2 (checked under SpecSeq)
\* ------------------------------------------------------------------------

\* base(c) as the claim tabulates it.
ClaimedBase ==
    IF ctype.kind \in {"Vec", "BinaryHeap"} THEN capacity * ctype.T.size
    ELSE IF ctype.kind = "VecDeque" THEN (capacity + 1) * ctype.T.size
    ELSE IF ctype.kind = "LinkedList" THEN Len(items) * ctype.T.size
    ELSE 0

UsageOf(e) == e.usage

LowerOf(e) == e.lower

UpperOf(e) == e.upper.val

\* Sum over the elements with index in S of the named part of the estimate.
RECURSIVE SumOver(_, _)
SumOver(S, part) ==
    IF S = {} THEN 0
    ELSE LET i == CHOOSE j \in S : TRUE
             x == CASE part = "usage" -> UsageOf(items[i])
                    [] part = "lower" -> LowerOf(items[i])
                    [] part = "upper" -> UpperOf(items[i])
         IN  x + SumOver(S \ {i}, part)

AllBounded == \A i \in DOMAIN items : items[i].upper.some

\* C7: for every sequence-like container dynamic_usage is base plus the
\* sum of the elements' dynamic_usage, and dynamic_usage_bounds is base
\* plus the sums of the elements' lower and upper bounds (no upper bound
\* once an element has none); a Vec of 8-byte non-allocating elements with
\* capacity 7 and one element reports 56 and (56, Some(56)).
C7_SequenceEstimates ==
    /\ seq_ret.op = "dynamic_usage" =>
           /\ seq_ret.val = ClaimedBase + SumOver(DOMAIN items, "usage")
           /\ (ctype.kind = "Vec" /\ ctype.T.size = 8 /\ capacity = 7
                   /\ items = <<NoDynamicUsage>>) => seq_ret.val = 56
    /\ seq_ret.op = "dynamic_usage_bounds" =>
           /\ seq_ret.ret.lower = ClaimedBase + SumOver(DOMAIN items, "lower")
           /\ seq_ret.ret.upper =
                  IF AllBounded
                  THEN Some(ClaimedBase + SumOver(DOMAIN items, "upper"))
                  ELSE None
           /\ (ctype.kind = "Vec" /\ ctype.T.size = 8 /\ capacity = 7
                   /\ items = <<NoDynamicUsage>>) =>
                  seq_ret.ret = [lower |-> 56, upper |-> Some(56)]

\* The claim's own case has been run: dynamic_usage_bounds on a Vec of
\* 8-byte non-allocating elements with capacity 7 and one element.
C7_Witness ==
    /\ seq_ret.op = "dynamic_usage_bounds"
    /\ ctype.kind = "Vec"
    /\ ctype.T.size = 8
    /\ capacity = 7
    /\ items = <<NoDynamicUsage>>
    /\ seq_ret.ret = [lower |-> 56, upper |-> Some(56)]

====
